---- MODULE Spec2Model ----
(***************************************************************************)
(* A model of timelapse-rs: the frame selectors (frame_selection.rs), the  *)
(* windowing decoder (decoder.rs) and the legacy TimelapseContext          *)
(* (processing.rs).                                                        *)
(*                                                                         *)
(* A frame is a record [id, key, data]: data is the packed RGB24 plane     *)
(* (three bytes per pixel), id is the position of the packet it was        *)
(* decoded from (or its index in a hand-made window) and key is the KEY    *)
(* flag of that packet.                                                    *)
(***************************************************************************)
EXTENDS Integers, Sequences, FiniteSets, TLC

\* ------------------------------------------------------------------ bounds

\* longest window handed to pick_best directly
MaxWindow == 3
\* longest packet stream
MaxPackets == 4
\* largest configured window_size
MaxWindowSize == 2
\* largest configured frame_skip
MaxFrameSkip == 1
\* most frames handed to the encoder
MaxFrames == 3
\* longest byte pattern given to mse
MaxVecLen == 2
\* longest window of frames that may be malformed
MaxAnyWindow == 2
\* longest packet stream read next to get_info
MaxInfoPackets == 2
MaxCallPackets == 2

\* ------------------------------------------------------------- frame data

\* every frame has two pixels (all frames of one decoder have its width x
\* height)
D0 == <<0, 0, 0,  0, 0, 0>>
D1 == <<10, 0, 0,  0, 0, 0>>
D2 == <<0, 0, 0,  10, 0, 0>>

\* the pixel buffers frames are drawn from: D1 and D2 are equally far from D0
\* and farther from each other, under every scorer
FrameData == <<D0, D1, D2>>

\* the bytes of a well-formed plane: width * height * 3
PlaneLen == Len(D0)

\* malformed buffers: a frame without any plane (VideoFrame::empty), and one
\* pixel too few
M0 == <<>>
M1 == <<10, 0, 0>>
AnyData == <<D0, D1, M0, M1>>

\* Option: None, or Some(x)
None == <<>>
Some(x) == <<x>>
Unwrap(o) == o[1]

\* ---------------------------------------------------------------- request

ComparisonMode == {"Noop", "Blockhash", "GradientHash", "MeanHash", "MSE", "SSIM"}

HashModes == {"Blockhash", "GradientHash", "MeanHash"}

\* a get_frame_selector whose hash arm also takes SSIM
get_frame_selector_ssim_hashed(mode) ==
  CASE mode = "Noop" -> "NoopFrameSelector"
    [] mode \in HashModes \cup {"SSIM"} -> "HashFrameSelector"
    [] mode = "MSE" -> "MSEFrameSelector"
    [] OTHER -> "panic"

\* get_frame_selector: the selector built for a comparison mode; "panic" is
\* the catch-all arm
get_frame_selector(mode) ==
  CASE mode = "Noop" -> "NoopFrameSelector"
    [] mode \in HashModes -> "HashFrameSelector"
    [] mode = "MSE" -> "MSEFrameSelector"
    [] OTHER -> "panic"

\* ------------------------------------------------------------ MSE scoring

\* what stops get_luma_data on a frame, if anything: frame.data(0) panics
\* ("out of bounds") on a frame that has no plane 0
get_luma_data_fault(frame) ==
  IF frame.data = <<>> THEN "VideoFrame::data" ELSE "none"

\* get_luma_data: the first sample of every pixel, for i in 0..len/3
get_luma_data(frame) ==
  [i \in 1..(Len(frame.data) \div 3) |-> frame.data[(i - 1) * 3 + 1]]

Min(a, b) == IF a < b THEN a ELSE b

I16Max == 32767

\* i16::saturating_pow(2) of a difference of two bytes, then `as u16`
sq_diff(a, b) == Min((a - b) * (a - b), I16Max)

RECURSIVE sat_sum(_, _, _)
\* the fold of saturating_add over zip(vec1, vec2), from pair i on. The u32
\* sum saturates at 2^32 - 1, which takes more than 131000 pixels to reach:
\* no sum of the frames modelled here comes near it
sat_sum(vec1, vec2, i) ==
  IF i > Min(Len(vec1), Len(vec2)) THEN 0
  ELSE sq_diff(vec1[i], vec2[i]) + sat_sum(vec1, vec2, i + 1)

\* mse: the f64 quotient sum / vec1.len(), kept as the exact fraction of its
\* two u32 operands; den = 0 is 0.0 / 0.0, NaN
mse(vec1, vec2) == [num |-> sat_sum(vec1, vec2, 1), den |-> Len(vec1)]

IsNaN(x) == x.den = 0

\* err1.partial_cmp(err2).unwrap_or(Equal): two quotients of u32 operands
\* compare as the fractions do; NaN compares as Equal
cmp_err(e1, e2) ==
  IF IsNaN(e1) \/ IsNaN(e2) THEN "Equal"
  ELSE IF e1.num * e2.den < e2.num * e1.den THEN "Less"
  ELSE IF e1.num * e2.den > e2.num * e1.den THEN "Greater"
  ELSE "Equal"

\* -- mse on long buffers: a buffer is a short pattern repeated `times` times

U16Max == 65535

\* a u32 (or a wider exact sum) as two halves: hi * 2^16 + lo, lo < 2^16
Wide(hi, lo) == [hi |-> hi, lo |-> lo]
WideAdd(w, x) ==
  LET lo == w.lo + x
  IN Wide(w.hi + (lo \div (U16Max + 1)), lo % (U16Max + 1))
\* k * w for a small k
WideScale(w, k) == WideAdd(Wide(k * w.hi, 0), k * w.lo)

\* u32::saturating_add keeps a sum that passed u32::MAX at u32::MAX
saturate(w) == IF w.hi > U16Max THEN Wide(U16Max, U16Max) ELSE w

RECURSIVE sat_sum_repeated(_, _)
\* the fold of saturating_add over `times` repetitions of a pattern whose
\* squared differences add up to s: the terms are never negative, so the u32
\* accumulator holds times * s until that passes u32::MAX and stays there
\* (the repetitions are taken 256 at a time)
sat_sum_repeated(times, s) ==
  IF times = 0 THEN Wide(0, 0)
  ELSE LET most == sat_sum_repeated(times \div 256, s)
           sum == WideAdd(WideScale(most, 256), (times % 256) * s)
       IN saturate(sum)

\* mse of the buffers made of `times` repetitions of vec1 and of vec2
mse_repeated(vec1, vec2, times) ==
  [num |-> sat_sum_repeated(times, sat_sum(vec1, vec2, 1)),
   den |-> times * Len(vec1)]

\* ----------------------------------------------------------- hash scoring

\* get_hash_alg: the img_hash algorithm of a comparison mode
get_hash_alg(mode) ==
  CASE mode = "Blockhash" -> "Blockhash"
    [] mode = "GradientHash" -> "DoubleGradient"
    [] mode = "MeanHash" -> "Mean"
    [] OTHER -> "panic"

\* what stops hash_frame on a frame, if anything: get_hash_alg panics on a
\* mode that is no hash mode; frame.data(0) panics on a frame without
\* planes; try_into_buffer fails on a buffer shorter than the
\* row_major_packed layout of the frame, and unwrap panics on that
hash_frame_fault(frame, mode) ==
  IF get_hash_alg(mode) = "panic" THEN "get_hash_alg"
  ELSE IF frame.data = <<>> THEN "VideoFrame::data"
  ELSE IF Len(frame.data) < PlaneLen THEN "unwrap"
  ELSE "none"

NPixels(data) == Len(data) \div 3

\* Rec. 709 luma of pixel i, in tenths
Luma(data, i) == 2 * data[3 * i - 2] + 7 * data[3 * i - 1] + data[3 * i]

\* sum of the three samples of pixel i
Total(data, i) == data[3 * i - 2] + data[3 * i - 1] + data[3 * i]

RECURSIVE SumTo(_, _)
SumTo(f, n) == IF n = 0 THEN 0 ELSE f[n] + SumTo(f, n - 1)

Bit(b) == IF b THEN 1 ELSE 0

\* hash_frame: the img_hash digest of the frame's RGB plane, one bit per
\* pixel. img_hash is an external crate; only its interface is relied on (a
\* deterministic digest per algorithm, compared by Hamming distance):
\*   Mean            a pixel's luma is above the mean luma
\*   DoubleGradient  a pixel's luma is below that of the next pixel
\*   Blockhash       a pixel's sample total is above the mid-range total
hash_frame(frame, mode) ==
  LET d == frame.data
      n == NPixels(d)
      alg == get_hash_alg(mode)
      lum == [i \in 1..n |-> Luma(d, i)]
      tot == [i \in 1..n |-> Total(d, i)]
      hi == CHOOSE x \in {tot[i] : i \in 1..n} : \A i \in 1..n : tot[i] <= x
      lo == CHOOSE x \in {tot[i] : i \in 1..n} : \A i \in 1..n : tot[i] >= x
  IN CASE alg = "Mean" -> [i \in 1..n |-> Bit(n * lum[i] > SumTo(lum, n))]
       [] alg = "DoubleGradient" ->
            [i \in 1..n |-> Bit(lum[i] < lum[(i % n) + 1])]
       [] alg = "Blockhash" -> [i \in 1..n |-> Bit(2 * tot[i] > hi + lo)]

\* ImageHash::dist: the Hamming distance of two digests
hash_dist(h1, h2) ==
  Cardinality({i \in 1..Min(Len(h1), Len(h2)) : h1[i] # h2[i]})

\* ------------------------------------------------------------------ state

VARIABLES
  request,       \* Request: window_size, frame_skip, key_frames_only, comparison_mode
  last_frame,    \* MSEFrameSelector.last_frame: None or the reference luma
  last_hash,     \* HashFrameSelector.last_hash: None or the reference digest
  pick_result,   \* outcome of the latest pick_best: kind, index in window, frame
  pick_window,   \* the window the latest pick_best was given
  prev_frame,    \* last_frame as the latest pick_best found it
  prev_hash,     \* last_hash as the latest pick_best found it
  dist_calls,    \* calls of mse / dist made by the latest pick_best
  ref_writes,    \* replacements of the reference made by the latest pick_best
  last_ok,       \* the frame returned by the latest successful pick_best
  selector       \* what get_frame_selector gave: "none" before it is called

selVars == <<last_frame, last_hash, pick_result, pick_window, prev_frame,
             prev_hash, dist_calls, ref_writes, last_ok>>

NoResult == [kind |-> "none", idx |-> 0, frame |-> None, fault |-> "none"]
Ok(i, f) == [kind |-> "Ok", idx |-> i, frame |-> Some(f), fault |-> "none"]
EmptyInput == [kind |-> "EmptyInput", idx |-> 0, frame |-> None, fault |-> "none"]
\* a panic unwinds the caller: no value is returned and nothing runs after
\* it; fault names the call that panicked
Panic(why) == [kind |-> "panic", idx |-> 0, frame |-> None, fault |-> why]

\* --------------------------------------------------- the parallel minimum

\* min_by with the comparison turned round: the larger item is kept
min_by_op_reversed(a, b) == IF cmp_err(a.dist, b.dist) = "Less" THEN b ELSE a

\* min_by_key keeping the right item on equal keys
min_by_key_op_last_tie(a, b) == IF a.dist >= b.dist THEN b ELSE a

\* the closure min_by reduces with: the right item only when the left one is
\* Greater
min_by_op(a, b) == IF cmp_err(a.dist, b.dist) = "Greater" THEN b ELSE a

\* the closure min_by_key reduces with, on the u32 key
min_by_key_op(a, b) == IF a.dist > b.dist THEN b ELSE a

min_op(a, b, byKey) == IF byKey THEN min_by_key_op(a, b) ELSE min_by_op(a, b)

RECURSIVE reduce_with_unordered(_, _)
\* a reduction that also combines two groups in the opposite order
reduce_with_unordered(items, byKey) ==
  IF Len(items) = 1 THEN {items[1]}
  ELSE UNION { { min_op(a, b, byKey) :
                   a \in reduce_with_unordered(SubSeq(items, 1, k), byKey),
                   b \in reduce_with_unordered(SubSeq(items, k + 1, Len(items)),
                                              byKey) }
               \cup
               { min_op(b, a, byKey) :
                   a \in reduce_with_unordered(SubSeq(items, 1, k), byKey),
                   b \in reduce_with_unordered(SubSeq(items, k + 1, Len(items)),
                                              byKey) } :
               k \in 1..(Len(items) - 1) }

RECURSIVE reduce_with(_, _)
\* rayon's reduce_with over an indexed sequence: the items stay in order and
\* are grouped as any binary tree; the set of results over all groupings
reduce_with(items, byKey) ==
  IF Len(items) = 1 THEN {items[1]}
  ELSE UNION { { min_op(a, b, byKey) :
                   a \in reduce_with(SubSeq(items, 1, k), byKey),
                   b \in reduce_with(SubSeq(items, k + 1, Len(items)), byKey) } :
               k \in 1..(Len(items) - 1) }

\* --------------------------------------------------------------- pick_best

\* RefCell::take in place of RefCell::borrow: the cell is left empty
RefCell_take(content) == None

\* RefCell::borrow: what the cell holds once the borrow is dropped
RefCell_borrow(content) == content

\* window.pop() in place of window.remove(0)
Vec_remove_last(window) == window[Len(window)]

\* window.remove(0): the element taken out of a non-empty Vec
Vec_remove_first(window) == window[1]

\* a candidate tuple that carries the reference in place of its own luma
MSE_candidate_stale(window, i, previous_luma) ==
  [idx |-> i, frame |-> window[i],
   sum |-> previous_luma,
   dist |-> mse(get_luma_data(window[i]), previous_luma)]

\* the tuple (frame, luma, err) the MSE selector maps candidate i to
MSE_candidate(window, i, previous_luma) ==
  [idx |-> i, frame |-> window[i],
   sum |-> get_luma_data(window[i]),
   dist |-> mse(get_luma_data(window[i]), previous_luma)]

\* the tuple (frame, hash, dist) the hash selector maps candidate i to
Hash_candidate(window, i, last, comparison_mode) ==
  [idx |-> i, frame |-> window[i],
   sum |-> hash_frame(window[i], comparison_mode),
   dist |-> hash_dist(last, hash_frame(window[i], comparison_mode))]

\* what every pick_best records about its call
Called(window) ==
  /\ pick_window' = window
  /\ prev_frame' = last_frame
  /\ prev_hash' = last_hash

Selector == get_frame_selector(request.comparison_mode)

\* MSEFrameSelector::pick_best
MSE_pick_best(window) ==
  /\ Selector = "MSEFrameSelector"
  /\ Called(window)
  /\ UNCHANGED last_hash
  /\ IF last_frame = None
     THEN IF window = <<>>
          THEN \* window.remove(0) on an empty Vec
               /\ pick_result' = Panic("Vec::remove")
               /\ UNCHANGED <<last_frame, last_ok>>
               /\ dist_calls' = 0
               /\ ref_writes' = 0
          ELSE IF get_luma_data_fault(Vec_remove_first(window)) # "none"
          THEN /\ pick_result' = Panic(get_luma_data_fault(Vec_remove_first(window)))
               /\ UNCHANGED <<last_frame, last_ok>>
               /\ dist_calls' = 0
               /\ ref_writes' = 0
          ELSE /\ last_frame' = Some(get_luma_data(Vec_remove_first(window)))
               /\ pick_result' = Ok(1, Vec_remove_first(window))
               /\ last_ok' = Some(Vec_remove_first(window))
               /\ dist_calls' = 0
               /\ ref_writes' = 1
     ELSE IF \E i \in 1..Len(window) : get_luma_data_fault(window[i]) # "none"
     THEN \* a panic inside the parallel map ends the call; the other
          \* candidates may or may not have been scored by then
          \E i \in 1..Len(window) :
            /\ get_luma_data_fault(window[i]) # "none"
            /\ pick_result' = Panic(get_luma_data_fault(window[i]))
            /\ last_frame' = RefCell_borrow(last_frame)
            /\ UNCHANGED last_ok
            /\ dist_calls' \in 0..(Len(window) - 1)
            /\ ref_writes' = 0
     ELSE LET scored == [i \in 1..Len(window) |->
                           MSE_candidate(window, i, Unwrap(last_frame))]
          IN /\ dist_calls' = Len(window)
             /\ IF window = <<>>
                THEN /\ pick_result' = EmptyInput
                     /\ last_frame' = RefCell_borrow(last_frame)
                     /\ UNCHANGED last_ok
                     /\ ref_writes' = 0
                ELSE \E r \in reduce_with(scored, FALSE) :
                       /\ last_frame' = Some(r.sum)
                       /\ pick_result' = Ok(r.idx, r.frame)
                       /\ last_ok' = Some(r.frame)
                       /\ ref_writes' = 1

\* HashFrameSelector::pick_best
Hash_pick_best(window) ==
  /\ Selector = "HashFrameSelector"
  /\ Called(window)
  /\ UNCHANGED last_frame
  /\ IF last_hash = None
     THEN IF window = <<>>
          THEN \* window.remove(0) on an empty Vec
               /\ pick_result' = Panic("Vec::remove")
               /\ UNCHANGED <<last_hash, last_ok>>
               /\ dist_calls' = 0
               /\ ref_writes' = 0
          ELSE IF hash_frame_fault(Vec_remove_first(window),
                                   request.comparison_mode) # "none"
          THEN /\ pick_result' = Panic(hash_frame_fault(Vec_remove_first(window),
                                                        request.comparison_mode))
               /\ UNCHANGED <<last_hash, last_ok>>
               /\ dist_calls' = 0
               /\ ref_writes' = 0
          ELSE /\ last_hash' = Some(hash_frame(Vec_remove_first(window),
                                                request.comparison_mode))
               /\ pick_result' = Ok(1, Vec_remove_first(window))
               /\ last_ok' = Some(Vec_remove_first(window))
               /\ dist_calls' = 0
               /\ ref_writes' = 1
     ELSE IF \E i \in 1..Len(window) :
               hash_frame_fault(window[i], request.comparison_mode) # "none"
     THEN \* a panic inside the parallel map ends the call; the other
          \* candidates may or may not have been scored by then
          \E i \in 1..Len(window) :
            /\ hash_frame_fault(window[i], request.comparison_mode) # "none"
            /\ pick_result' = Panic(hash_frame_fault(window[i],
                                                     request.comparison_mode))
            /\ last_hash' = RefCell_borrow(last_hash)
            /\ UNCHANGED last_ok
            /\ dist_calls' \in 0..(Len(window) - 1)
            /\ ref_writes' = 0
     ELSE LET scored == [i \in 1..Len(window) |->
                           Hash_candidate(window, i, Unwrap(last_hash),
                                          request.comparison_mode)]
          IN /\ dist_calls' = Len(window)
             /\ IF window = <<>>
                THEN /\ pick_result' = EmptyInput
                     /\ last_hash' = RefCell_borrow(last_hash)
                     /\ UNCHANGED last_ok
                     /\ ref_writes' = 0
                ELSE \E r \in reduce_with(scored, TRUE) :
                       /\ last_hash' = Some(r.sum)
                       /\ pick_result' = Ok(r.idx, r.frame)
                       /\ last_ok' = Some(r.frame)
                       /\ ref_writes' = 1

\* NoopFrameSelector::pick_best
Noop_pick_best(window) ==
  /\ Selector = "NoopFrameSelector"
  /\ Called(window)
  /\ UNCHANGED <<last_frame, last_hash>>
  /\ dist_calls' = 0
  /\ ref_writes' = 0
  /\ IF window = <<>>
     THEN /\ pick_result' = EmptyInput
          /\ UNCHANGED last_ok
     ELSE /\ pick_result' = Ok(1, Vec_remove_first(window))
          /\ last_ok' = Some(Vec_remove_first(window))

\* FrameSelector::pick_best on the selector get_frame_selector returned
pick_best(window) ==
  \/ MSE_pick_best(window)
  \/ Hash_pick_best(window)
  \/ Noop_pick_best(window)

\* ------------------------------------------------ the selector on its own

\* a frame made by hand: buffer d at index i of its window
MkFrame(i, d) == [id |-> i, key |-> TRUE, data |-> FrameData[d]]

\* every window of n frames over FrameData
WindowsOf(n) ==
  { [i \in 1..n |-> MkFrame(i, f[i])] : f \in [1..n -> 1..Len(FrameData)] }

Windows == UNION { WindowsOf(n) : n \in 0..MaxWindow }

\* windows whose frames may be malformed
AnyWindowsOf(n) ==
  { [i \in 1..n |-> [id |-> i, key |-> TRUE, data |-> AnyData[f[i]]]] :
      f \in [1..n -> 1..Len(AnyData)] }

AnyWindows == UNION { AnyWindowsOf(n) : n \in 0..MaxAnyWindow }

\* the modes get_frame_selector builds a selector for
SupportedModes == {m \in ComparisonMode : get_frame_selector(m) # "panic"}

SelInit ==
  /\ last_frame = None
  /\ last_hash = None
  /\ pick_result = NoResult
  /\ pick_window = <<>>
  /\ prev_frame = None
  /\ prev_hash = None
  /\ dist_calls = 0
  /\ ref_writes = 0
  /\ last_ok = None

\* get_frame_selector has been called
Built == selector = Selector

\* the call of get_frame_selector, before any frame is seen
GetFrameSelector ==
  /\ selector = "none"
  /\ selector' = Selector
  /\ UNCHANGED selVars

\* the process is gone once a call has panicked; there is a selector to call
\* once get_frame_selector has returned one
Alive == pick_result.kind # "panic" /\ Built

\* a call of pick_best on each kind of selector, with any window
PickBestMSE == Alive /\ \E w \in Windows : MSE_pick_best(w)
PickBestHash == Alive /\ \E w \in Windows : Hash_pick_best(w)
PickBestNoop == Alive /\ \E w \in Windows : Noop_pick_best(w)

\* the same calls with windows whose frames may be malformed
PickBestMSEAny == Alive /\ \E w \in AnyWindows : MSE_pick_best(w)
PickBestHashAny == Alive /\ \E w \in AnyWindows : Hash_pick_best(w)

\* ---------------------------------------------------------- packet source

VARIABLES
  packets,       \* the demuxed packet stream of the input file
  api,           \* which front end the run drives: "Decoder" or "TimelapseContext"
  packet_pos,    \* Decoder.packet_iter: packets consumed so far
  dec_result,    \* outcome of the latest Decoder::next_window
  dec_log,       \* what Decoder::next_frame did with each consumed packet
  dec_calls,     \* the next_window calls that consumed packets: outcome, the
                 \* packets consumed (from, to] and the ids of the frames returned
  tl_pos,        \* TimelapseContext.packet_iter: packets consumed so far
  tl_last_hash,  \* TimelapseContext.last_hash
  tl_result,     \* outcome of the latest TimelapseContext::next_frame
  tl_log         \* what TimelapseContext::next_window did with each packet

decVars == <<packets, api, packet_pos, dec_result, dec_log, dec_calls>>
tlVars == <<tl_pos, tl_last_hash, tl_result, tl_log>>

\* a packet: of the video stream or another, with or without the KEY flag,
\* and what decoding and scaling it gives: a frame, an empty frame (the codec
\* wants more input), a decode error or a scale error
Pkt(v, k, o) == [video |-> v, key |-> k, out |-> o]

PacketKinds ==
  { Pkt(FALSE, FALSE, "frame"), Pkt(TRUE, FALSE, "frame"), Pkt(TRUE, TRUE, "frame"),
    Pkt(TRUE, TRUE, "empty"), Pkt(TRUE, TRUE, "decode_err"),
    Pkt(TRUE, TRUE, "scale_err") }

StreamsUpTo(len) == UNION { [1..n -> PacketKinds] : n \in 0..len }

Streams == StreamsUpTo(MaxPackets)

\* the output format the scaler of Decoder::new is built with
ScalerOutput == "RGB24"

\* the scaled frame of packet i: the buffers of FrameData in turn
FrameOf(i) ==
  [id |-> i, key |-> packets[i].key,
   data |-> FrameData[((i - 1) % Len(FrameData)) + 1],
   format |-> ScalerOutput]

\* ------------------------------------------------------- Decoder (decoder.rs)

\* the key-frame filter with the flag negated
key_filtered_negated(p) == ~request.key_frames_only /\ ~p.key

\* the frame-skip test off by one
should_skip_late(skip_count) == skip_count > 1

\* a loop condition that lets one frame too many in
window_open_wide(window) == Len(window) <= request.window_size

\* a next_window that drops a window shorter than window_size
window_outcome_full_only(window) ==
  IF Len(window) < request.window_size THEN "Eof" ELSE "Ok"

\* window.insert(0, frame) in place of window.push(frame)
Vec_insert_first(window, frame) == <<frame>> \o window

\* window.push(frame)
Vec_push(window, frame) == Append(window, frame)

\* a next_window that leaves its loop on any error of next_frame
ends_loop_on_error(kind) == kind # "Ok"

\* the results of next_frame next_window leaves its loop on: Err(Eof) => break
ends_loop(kind) == kind = "Eof"

\* the key-frame filter: request.key_frames_only && !is_key
key_filtered(p) == request.key_frames_only /\ ~p.key

\* the frame-skip test: skip_count > 0
should_skip(skip_count) == skip_count > 0

\* the loop condition of next_window: window.len() < window_size
window_open(window) == Len(window) < request.window_size

\* what next_window returns for the window it has accumulated
window_outcome(window) == IF window = <<>> THEN "Eof" ELSE "Ok"

RECURSIVE Decoder_next_frame(_, _, _)
\* Decoder::next_frame from packet position pos with skip_count left to
\* skip; log is the disposition of every packet consumed so far
Decoder_next_frame(pos, skip_count, log) ==
  IF pos >= Len(packets)
  THEN [kind |-> "Eof", frame |-> None, pos |-> pos, log |-> log]
  ELSE LET p == packets[pos + 1] IN
    IF ~p.video
    THEN Decoder_next_frame(pos + 1, skip_count, Append(log, "other"))
    ELSE IF key_filtered(p)
    THEN Decoder_next_frame(pos + 1, skip_count, Append(log, "nonkey"))
    ELSE IF should_skip(skip_count)
    THEN Decoder_next_frame(pos + 1, skip_count - 1, Append(log, "skipped"))
    ELSE IF p.out = "decode_err"
    THEN [kind |-> "Error", frame |-> None, pos |-> pos + 1,
          log |-> Append(log, "error")]
    ELSE IF p.out = "empty"
    THEN Decoder_next_frame(pos + 1, skip_count, Append(log, "empty"))
    ELSE IF p.out = "scale_err"
    THEN [kind |-> "Error", frame |-> None, pos |-> pos + 1,
          log |-> Append(log, "error")]
    ELSE [kind |-> "Ok", frame |-> Some(FrameOf(pos + 1)), pos |-> pos + 1,
          log |-> Append(log, "admitted")]

RECURSIVE Decoder_next_window(_, _, _)
\* Decoder::next_window with `window` accumulated so far
Decoder_next_window(pos, log, window) ==
  LET finish(eof, at, lg) ==
        [kind |-> window_outcome(window),
         window |-> IF window_outcome(window) = "Ok" THEN window ELSE <<>>,
         eof |-> eof, pos |-> at, log |-> lg]
  IN IF window_open(window)
     THEN LET r == Decoder_next_frame(pos, request.frame_skip, log) IN
          CASE r.kind = "Ok" ->
                 Decoder_next_window(r.pos, r.log, Vec_push(window, Unwrap(r.frame)))
            [] ends_loop(r.kind) -> finish(TRUE, r.pos, r.log)
            [] OTHER ->
                 [kind |-> "Error", window |-> <<>>, eof |-> FALSE,
                  pos |-> r.pos, log |-> r.log]
     ELSE finish(FALSE, pos, log)

\* from: where in the stream the call began
NoWindow == [kind |-> "none", window |-> <<>>, eof |-> FALSE, from |-> 0]

\* a call of Decoder::next_window
DecoderNextWindow ==
  /\ api \in {"Decoder", "both"}
  /\ LET r == Decoder_next_window(packet_pos, dec_log, <<>>) IN
       /\ packet_pos' = r.pos
       /\ dec_log' = r.log
       /\ dec_result' = [kind |-> r.kind, window |-> r.window, eof |-> r.eof,
                         from |-> packet_pos]
       /\ dec_calls' =
            IF r.pos = packet_pos THEN dec_calls
            ELSE Append(dec_calls,
                        [kind |-> r.kind, from |-> packet_pos, to |-> r.pos,
                         ids |-> [i \in 1..Len(r.window) |-> r.window[i].id]])
  /\ UNCHANGED <<packets, api>>

VARIABLES
  info           \* what the latest Decoder::get_info returned, or None

\* output_pixel_format: the pixel format get_info reports for a mode
output_pixel_format(comparison_mode) ==
  CASE comparison_mode \in {"Blockhash", "GradientHash", "MeanHash"} -> "RGB24"
    [] comparison_mode \in {"MSE", "SSIM", "Noop"} -> "YUV420P"

\* a call of Decoder::get_info (the fields read from the input stream are
\* left out)
DecoderGetInfo ==
  /\ api = "Decoder"
  /\ info' = Some([decoded_pixel_format |->
                     output_pixel_format(request.comparison_mode)])

\* ------------------------------------- TimelapseContext (processing.rs)

RECURSIVE TimelapseContext_next_window(_, _, _, _)
\* TimelapseContext::next_window with `window` accumulated so far and
\* skip_count left to skip; it returns Ok(window) also for an empty window
TimelapseContext_next_window(pos, skip_count, log, window) ==
  IF Len(window) >= request.window_size
  THEN [kind |-> "Ok", window |-> window, eof |-> FALSE, pos |-> pos, log |-> log]
  ELSE IF pos >= Len(packets)
  THEN [kind |-> "Ok", window |-> window, eof |-> TRUE, pos |-> pos, log |-> log]
  ELSE LET p == packets[pos + 1] IN
    IF ~p.video
    THEN TimelapseContext_next_window(pos + 1, skip_count, Append(log, "other"), window)
    ELSE IF request.key_frames_only /\ ~p.key
    THEN TimelapseContext_next_window(pos + 1, skip_count, Append(log, "nonkey"), window)
    ELSE IF skip_count > 0
    THEN TimelapseContext_next_window(pos + 1, skip_count - 1,
                                      Append(log, "skipped"), window)
    ELSE IF p.out = "decode_err"
    THEN [kind |-> "Error", window |-> <<>>, eof |-> FALSE, pos |-> pos + 1,
          log |-> Append(log, "error")]
    ELSE IF p.out = "empty"
    THEN TimelapseContext_next_window(pos + 1, skip_count, Append(log, "empty"), window)
    ELSE IF p.out = "scale_err"
    THEN [kind |-> "Error", window |-> <<>>, eof |-> FALSE, pos |-> pos + 1,
          log |-> Append(log, "error")]
    ELSE TimelapseContext_next_window(pos + 1, request.frame_skip,
                                      Append(log, "admitted"),
                                      Append(window, FrameOf(pos + 1)))

\* hash_frame of processing.rs: always HashAlg::Blockhash
processing_hash_frame(frame) == hash_frame(frame, "Blockhash")

\* the outcome of next_frame, with what its next_window call did: the frames
\* it admitted and whether it found the packet source exhausted
Outcome(kind, frame, w) ==
  [kind |-> kind, frame |-> frame, admitted |-> Len(w.window), eof |-> w.eof]

NoFrame == [kind |-> "none", frame |-> None, admitted |-> 0, eof |-> FALSE]

\* a call of TimelapseContext::next_frame
TimelapseNextFrame ==
  /\ api \in {"TimelapseContext", "both"}
  /\ tl_result.kind # "panic"
  /\ LET w == TimelapseContext_next_window(tl_pos, request.frame_skip, tl_log, <<>>)
         window == w.window
         scored == [i \in 1..Len(window) |->
                      [idx |-> i, frame |-> window[i],
                       sum |-> processing_hash_frame(window[i]),
                       dist |-> hash_dist(Unwrap(tl_last_hash),
                                          processing_hash_frame(window[i]))]]
     IN /\ tl_pos' = w.pos
        /\ tl_log' = w.log
        /\ IF w.kind = "Error"
           THEN /\ tl_result' = Outcome("Error", None, w)
                /\ UNCHANGED tl_last_hash
           ELSE IF tl_last_hash = None
           THEN IF window = <<>>
                THEN \* window.remove(0) on an empty Vec
                     /\ tl_result' = Outcome("panic", None, w)
                     /\ UNCHANGED tl_last_hash
                ELSE /\ tl_last_hash' = Some(processing_hash_frame(window[1]))
                     /\ tl_result' = Outcome("Ok", Some(window[1]), w)
           ELSE IF window = <<>>
                THEN /\ tl_result' = Outcome("Eof", None, w)
                     /\ UNCHANGED tl_last_hash
                ELSE \E r \in reduce_with(scored, TRUE) :
                       /\ tl_last_hash' = Some(r.sum)
                       /\ tl_result' = Outcome("Ok", Some(r.frame), w)
  /\ UNCHANGED <<packets, api>>

\* ------------------------------------------------- Encoder (encoder.rs)

VARIABLES
  pts,           \* Encoder.pts: the timestamp of the next frame
  enc_queue,     \* timestamps of the frames the codec holds, oldest first
  enc_out,       \* what was written to the output after the header, in order
  enc_pc,        \* idle, or where finish stands: flush, trailer, done, failed
  enc_last,      \* outcome of the latest encode_frame
  enc_handed,    \* the timestamps of the frames given to encoder.encode, in order
  flush_turn     \* the turns the loop of finish has taken, modulo 2

encVars == <<pts, enc_queue, enc_out, enc_pc, enc_last, enc_handed, flush_turn>>

PacketOf(t) == [kind |-> "packet", pts |-> t]
Trailer == [kind |-> "trailer", pts |-> -1]

\* Encoder::new succeeded: the header is written, pts is 0
EncInit ==
  /\ pts = 0
  /\ enc_queue = <<>>
  /\ enc_out = <<>>
  /\ enc_pc = "idle"
  /\ enc_last = "none"
  /\ enc_handed = <<>>
  /\ flush_turn = 0

\* a pts that moves on by two
next_pts_by_two(p) == p + 2

\* self.pts += 1
next_pts(p) == p + 1

\* the loop condition finish computes after a flush: !has_packet
needs_to_flush(has_packet) == ~has_packet

\* a call of Encoder::encode_frame: the scaler or the codec may fail; the
\* codec takes the frame and either keeps it or gives out its oldest packet,
\* whose write may fail
EncodeFrame ==
  /\ enc_pc = "idle"
  /\ pts < MaxFrames
  /\ \/ \* scaler.run fails: the call returns before the frame has a pts
        /\ enc_last' = "Error"
        /\ UNCHANGED <<pts, enc_queue, enc_out, enc_handed>>
     \/ \* encoder.encode fails
        /\ pts' = next_pts(pts)
        /\ enc_handed' = Append(enc_handed, pts)
        /\ enc_last' = "Error"
        /\ UNCHANGED <<enc_queue, enc_out>>
     \/ \* the codec keeps the frame: has_packet is false
        /\ pts' = next_pts(pts)
        /\ enc_handed' = Append(enc_handed, pts)
        /\ enc_queue' = Append(enc_queue, pts)
        /\ enc_last' = "Ok"
        /\ UNCHANGED enc_out
     \/ \* has_packet: the oldest packet is written, or its write fails
        /\ pts' = next_pts(pts)
        /\ enc_handed' = Append(enc_handed, pts)
        /\ enc_queue' = Tail(Append(enc_queue, pts))
        /\ \/ /\ enc_out' = Append(enc_out, PacketOf(Head(Append(enc_queue, pts))))
              /\ enc_last' = "Ok"
           \/ /\ enc_last' = "Error"
              /\ UNCHANGED enc_out
  /\ UNCHANGED <<enc_pc, flush_turn>>

\* Encoder::finish is entered: needs_to_flush = true
EncFinish ==
  /\ enc_pc = "idle"
  /\ enc_pc' = "flush"
  /\ UNCHANGED <<pts, enc_queue, enc_out, enc_last, enc_handed, flush_turn>>

\* one turn of the loop of finish: encoder.flush gives the oldest packet the
\* codec holds (or fails); a drained codec gives none and no error
EncFlush ==
  /\ enc_pc = "flush"
  /\ flush_turn' = (flush_turn + 1) % 2
  /\ LET has_packet == enc_queue # <<>> IN
       \/ /\ has_packet
          /\ \* flush or write_interleaved fails
             /\ enc_pc' = "failed"
             /\ enc_queue' = Tail(enc_queue)
             /\ UNCHANGED enc_out
       \/ /\ IF has_packet
             THEN /\ enc_queue' = Tail(enc_queue)
                  /\ enc_out' = Append(enc_out, PacketOf(Head(enc_queue)))
             ELSE UNCHANGED <<enc_queue, enc_out>>
          /\ enc_pc' = IF needs_to_flush(has_packet) THEN "flush" ELSE "trailer"
  /\ UNCHANGED <<pts, enc_last, enc_handed>>

\* after the loop: output.write_trailer, which may fail
EncTrailer ==
  /\ enc_pc = "trailer"
  /\ \/ /\ enc_out' = Append(enc_out, Trailer)
        /\ enc_pc' = "done"
     \/ /\ enc_pc' = "failed"
        /\ UNCHANGED enc_out
  /\ UNCHANGED <<pts, enc_queue, enc_last, enc_handed, flush_turn>>

\* ------------------------------------------------- mse on its own inputs

VARIABLES
  calc           \* two byte buffers, and mse of them and of them doubled

\* byte values whose differences lie on both sides of 182
ByteSamples == {0, 73, 74, 255}
\* how often the pattern is repeated to make a buffer
RepChoices == {1, 2, 70000}

VecsOf(n) == [1..n -> ByteSamples]

NoCalc == [vec1 |-> <<>>, vec2 |-> <<>>, times |-> 0, err |-> None, err2 |-> None]

\* the inputs of mse: equal-length non-empty buffers
CalcInit ==
  \E n \in 1..MaxVecLen : \E a \in VecsOf(n), b \in VecsOf(n), t \in RepChoices :
    calc = [vec1 |-> a, vec2 |-> b, times |-> t, err |-> None, err2 |-> None]

\* mse(a, b) and mse(a ++ a, b ++ b) are computed, a and b being the
\* patterns repeated calc.times times
ApplyMse ==
  /\ calc.err = None
  /\ calc' = [calc EXCEPT
       !.err = Some(mse_repeated(calc.vec1, calc.vec2, calc.times)),
       !.err2 = Some(mse_repeated(calc.vec1, calc.vec2, 2 * calc.times))]

\* ------------------------------------------------------------------ driver

VARIABLES
  pc,            \* the driver's position: fetch, select, done, failed, crashed
  selected       \* ids of the frames handed to the sink, in order

drvVars == <<pc, selected>>

vars == <<request, selector, selVars, decVars, tlVars, drvVars, encVars, calc, info>>

\* the driver loop: request a window; at end-of-stream stop, on an error abort
DriverFetch ==
  /\ pc = "fetch"
  /\ DecoderNextWindow
  /\ pc' = CASE dec_result'.kind = "Ok" -> "select"
             [] dec_result'.kind = "Eof" -> "done"
             [] OTHER -> "failed"
  /\ UNCHANGED selected

\* the driver loop: select from the window and hand the frame to the sink;
\* EmptyInput is taken as end-of-stream
DriverSelect ==
  /\ pc = "select"
  /\ pick_best(dec_result.window)
  /\ pc' = CASE pick_result'.kind = "Ok" -> "fetch"
             [] pick_result'.kind = "EmptyInput" -> "done"
             [] OTHER -> "crashed"
  /\ selected' = IF pick_result'.kind = "Ok"
                 THEN Append(selected, Unwrap(pick_result'.frame).id)
                 ELSE selected

\* --------------------------------------------------------- specifications

Requests(sizes, skips, kfos, modes) ==
  { [window_size |-> w, frame_skip |-> k, key_frames_only |-> b,
     comparison_mode |-> m] : w \in sizes, k \in skips, b \in kfos, m \in modes }

DecInit(streams, apis) ==
  /\ packets \in streams
  /\ api \in apis
  /\ packet_pos = 0
  /\ dec_result = NoWindow
  /\ dec_log = <<>>
  /\ dec_calls = <<>>
  /\ tl_pos = 0
  /\ tl_last_hash = None
  /\ tl_result = NoFrame
  /\ tl_log = <<>>

\* the selector on its own, given any windows (Request::default's other fields)
Init ==
  /\ request \in Requests({25}, {0}, {TRUE}, ComparisonMode)
  /\ SelInit
  /\ selector = "none"
  /\ DecInit({<<>>}, {"none"})
  /\ pc = "off"
  /\ selected = <<>>
  /\ EncInit
  /\ calc = NoCalc
  /\ info = None

Next ==
  \/ PickBestMSE /\ UNCHANGED <<request, selector, decVars, tlVars, drvVars, encVars, calc, info>>
  \/ PickBestHash /\ UNCHANGED <<request, selector, decVars, tlVars, drvVars, encVars, calc, info>>
  \/ PickBestNoop /\ UNCHANGED <<request, selector, decVars, tlVars, drvVars, encVars, calc, info>>
  \/ GetFrameSelector /\ UNCHANGED <<request, decVars, tlVars, drvVars, encVars, calc, info>>

Spec == Init /\ [][Next]_vars

\* the two window extractors over any packet stream
InitDecoder ==
  /\ request \in Requests(1..MaxWindowSize, 0..MaxFrameSkip, BOOLEAN, {"Blockhash"})
  /\ SelInit
  /\ Built
  /\ DecInit(Streams, {"Decoder", "TimelapseContext"})
  /\ pc = "off"
  /\ selected = <<>>
  /\ EncInit
  /\ calc = NoCalc
  /\ info = None

NextDecoder ==
  \/ DecoderNextWindow /\ UNCHANGED <<request, selector, selVars, tlVars, drvVars, encVars, calc, info>>
  \/ TimelapseNextFrame
       /\ UNCHANGED <<request, selector, selVars, packet_pos, dec_result, dec_log, dec_calls,
                      drvVars,
                      encVars, calc, info>>

SpecDecoder == InitDecoder /\ [][NextDecoder]_vars

\* the Decoder called again and again: the caller keeps calling next_window,
\* also after it has returned Eof or an error
InitCalls ==
  /\ request \in Requests(1..MaxWindowSize, 0..MaxFrameSkip, BOOLEAN, {"Blockhash"})
  /\ SelInit
  /\ Built
  /\ DecInit(StreamsUpTo(MaxCallPackets), {"Decoder"})
  /\ pc = "off"
  /\ selected = <<>>
  /\ EncInit
  /\ calc = NoCalc
  /\ info = None

NextCalls ==
  DecoderNextWindow
    /\ UNCHANGED <<request, selector, selVars, tlVars, drvVars, encVars, calc, info>>

SpecCalls ==
  /\ InitCalls
  /\ [][NextCalls]_vars
  /\ WF_vars(NextCalls)

\* the two front ends side by side, each reading its own copy of one packet
\* stream under one request: a call of TimelapseContext::next_frame, and a
\* call of Decoder::next_window whose window, when there is one, goes to
\* HashFrameSelector::pick_best
BothNextFrame ==
  /\ api = "both"
  /\ Alive
  /\ TimelapseNextFrame
  /\ DecoderNextWindow
  /\ LET r == Decoder_next_window(packet_pos, dec_log, <<>>) IN
       IF r.kind = "Ok" THEN Hash_pick_best(r.window) ELSE UNCHANGED selVars

InitBoth ==
  /\ request \in Requests(1..MaxWindowSize, 0..MaxFrameSkip, BOOLEAN, {"Blockhash"})
  /\ SelInit
  /\ Built
  /\ DecInit(Streams, {"both"})
  /\ pc = "off"
  /\ selected = <<>>
  /\ EncInit
  /\ calc = NoCalc
  /\ info = None

NextBoth ==
  BothNextFrame /\ UNCHANGED <<request, selector, drvVars, encVars, calc, info>>

SpecBoth == InitBoth /\ [][NextBoth]_vars

\* the Decoder under every comparison mode: get_info and next_window
InitInfo ==
  /\ request \in Requests(1..MaxWindowSize, 0..MaxFrameSkip, BOOLEAN, ComparisonMode)
  /\ SelInit
  /\ selector = "none"
  /\ DecInit(StreamsUpTo(MaxInfoPackets), {"Decoder"})
  /\ pc = "off"
  /\ selected = <<>>
  /\ EncInit
  /\ calc = NoCalc
  /\ info = None

NextInfo ==
  \/ DecoderGetInfo
       /\ UNCHANGED <<request, selector, selVars, decVars, tlVars, drvVars, encVars, calc>>
  \/ DecoderNextWindow
       /\ UNCHANGED <<request, selector, selVars, tlVars, drvVars, encVars, calc, info>>

SpecInfo == InitInfo /\ [][NextInfo]_vars

\* decode, select, hand over, until the source is exhausted
InitPipeline ==
  /\ request \in Requests(1..MaxWindowSize, 0..MaxFrameSkip, BOOLEAN, SupportedModes)
  /\ SelInit
  /\ Built
  /\ DecInit(Streams, {"Decoder"})
  /\ pc = "fetch"
  /\ selected = <<>>
  /\ EncInit
  /\ calc = NoCalc
  /\ info = None

NextPipeline ==
  \/ DriverFetch /\ UNCHANGED <<request, selector, selVars, tlVars, encVars, calc, info>>
  \/ DriverSelect /\ UNCHANGED <<request, selector, decVars, tlVars, encVars, calc, info>>

SpecPipeline == InitPipeline /\ [][NextPipeline]_vars

\* the encoder on its own: frames are encoded, then finish runs
InitEncoder ==
  /\ request \in Requests({25}, {0}, {TRUE}, {"MSE"})
  /\ SelInit
  /\ Built
  /\ DecInit({<<>>}, {"none"})
  /\ pc = "off"
  /\ selected = <<>>
  /\ EncInit
  /\ calc = NoCalc
  /\ info = None

NextEncoder ==
  \/ EncodeFrame /\ UNCHANGED <<request, selector, selVars, decVars, tlVars, drvVars, calc, info>>
  \/ EncFinish /\ UNCHANGED <<request, selector, selVars, decVars, tlVars, drvVars, calc, info>>
  \/ EncFlush /\ UNCHANGED <<request, selector, selVars, decVars, tlVars, drvVars, calc, info>>
  \/ EncTrailer /\ UNCHANGED <<request, selector, selVars, decVars, tlVars, drvVars, calc, info>>

SpecEncoder == InitEncoder /\ [][NextEncoder]_vars

\* the encoder with finish running on once it is entered: its loop and the
\* trailer are steps of one call, which the thread keeps taking
otherVars == <<request, selector, selVars, decVars, tlVars, drvVars, calc, info>>

SpecEncoderFair ==
  /\ InitEncoder
  /\ [][NextEncoder]_vars
  /\ WF_vars(EncFlush /\ UNCHANGED otherVars)
  /\ WF_vars(EncTrailer /\ UNCHANGED otherVars)

\* mse on its own: inputs are drawn, then mse is applied
InitMse ==
  /\ request \in Requests({25}, {0}, {TRUE}, {"MSE"})
  /\ SelInit
  /\ Built
  /\ DecInit({<<>>}, {"none"})
  /\ pc = "off"
  /\ selected = <<>>
  /\ EncInit
  /\ CalcInit
  /\ info = None

NextMse ==
  ApplyMse
    /\ UNCHANGED <<request, selector, selVars, decVars, tlVars, drvVars, encVars, info>>

SpecMse == InitMse /\ [][NextMse]_vars

\* the MSE and hash selectors given windows whose frames may be malformed
InitAny ==
  /\ request \in Requests({25}, {0}, {TRUE}, HashModes \cup {"MSE"})
  /\ SelInit
  /\ Built
  /\ DecInit({<<>>}, {"none"})
  /\ pc = "off"
  /\ selected = <<>>
  /\ EncInit
  /\ calc = NoCalc
  /\ info = None

NextAny ==
  \/ PickBestMSEAny /\ UNCHANGED <<request, selector, decVars, tlVars, drvVars, encVars, calc, info>>
  \/ PickBestHashAny /\ UNCHANGED <<request, selector, decVars, tlVars, drvVars, encVars, calc, info>>

SpecAny == InitAny /\ [][NextAny]_vars

\* ================================================================= claims

OwnSelector == Selector \in {"MSEFrameSelector", "HashFrameSelector"}

\* the reference the selector holds, and the one its latest call found
Ref == IF Selector = "MSEFrameSelector" THEN last_frame ELSE last_hash
PrevRef == IF Selector = "MSEFrameSelector" THEN prev_frame ELSE prev_hash

\* the summary the selector keeps of a frame
Summary(f) ==
  IF Selector = "MSEFrameSelector" THEN get_luma_data(f)
  ELSE hash_frame(f, request.comparison_mode)

\* frame f is at most as far from reference ref as frame g
NoFarther(f, g, ref) ==
  IF Selector = "MSEFrameSelector"
  THEN LET e == mse(get_luma_data(f), ref)
           d == mse(get_luma_data(g), ref)
       IN e.num * d.den <= d.num * e.den
  ELSE hash_dist(ref, hash_frame(f, request.comparison_mode))
         <= hash_dist(ref, hash_frame(g, request.comparison_mode))

\* the latest pick_best ran Seeded and returned a frame
SeededPick == OwnSelector /\ pick_result.kind = "Ok" /\ PrevRef # None

Returned == Unwrap(pick_result.frame)

\* C1 (as claimed): pick_best on an empty window fails with EmptyInput, for
\* every selector variant and in every selector state.
C1_EmptyWindowIsEmptyInput ==
  (pick_result.kind # "none" /\ pick_window = <<>>)
    => pick_result.kind = "EmptyInput"

\* C2: Seeded, the frame pick_best returns is at most as far from the
\* reference the call found as every frame of the window.
C2_Minimality ==
  SeededPick =>
    /\ Returned = pick_window[pick_result.idx]
    /\ \A j \in 1..Len(pick_window) :
         NoFarther(Returned, pick_window[j], Unwrap(PrevRef))

C2_Witness ==
  /\ SeededPick
  /\ pick_result.idx > 1
  /\ ~NoFarther(pick_window[1], Returned, Unwrap(PrevRef))

\* C3: Seeded, among the frames of the window at minimal distance from the
\* reference, pick_best returns the one of lowest index.
C3_FirstOfTies ==
  SeededPick =>
    \A j \in 1..Len(pick_window) :
      (\A i \in 1..Len(pick_window) :
         NoFarther(pick_window[j], pick_window[i], Unwrap(PrevRef)))
        => pick_result.idx <= j

C3_Witness ==
  /\ SeededPick
  /\ pick_result.idx > 1
  /\ \E j \in (pick_result.idx + 1)..Len(pick_window) :
       NoFarther(pick_window[j], Returned, Unwrap(PrevRef))

\* C4: Unseeded, pick_best on a non-empty window returns the window's first
\* frame, computes no distance and stores that frame's summary as reference.
C4_SeedWithFirst ==
  (OwnSelector /\ pick_result.kind # "none" /\ PrevRef = None
     /\ pick_window # <<>>)
    => /\ pick_result.kind = "Ok"
       /\ Returned = pick_window[1]
       /\ dist_calls = 0
       /\ Ref = Some(Summary(pick_window[1]))

C4_Witness ==
  /\ OwnSelector
  /\ pick_result.kind = "Ok"
  /\ PrevRef = None
  /\ Len(pick_window) > 1
  /\ pick_window[Len(pick_window)].data # pick_window[1].data

\* C5: the stored reference is the summary of the frame the latest
\* successful pick_best returned (none before the first), and a successful
\* pick_best replaces the reference exactly once.
C5_ReferenceFollowsSelection ==
  OwnSelector =>
    /\ Ref = IF last_ok = None THEN None ELSE Some(Summary(Unwrap(last_ok)))
    /\ pick_result.kind = "Ok" => ref_writes = 1

C5_Witness ==
  /\ SeededPick
  /\ pick_result.idx > 1
  /\ Ref # PrevRef

\* ---- window extraction

Eligible == {"skipped", "empty", "error", "admitted"}

IsEligible(d) == d \in Eligible

\* the dispositions of the eligible packets of a log (video stream, passing
\* the key-frame filter), in order
EligibleOf(log) == SelectSeq(log, IsEligible)

\* the eligible packet before position j that ended a next_frame call, by an
\* admitted frame or by an error; 0 when there is none
PrevEnd(e, j) ==
  LET ends == {i \in 1..(j - 1) : e[i] \in {"admitted", "error"}}
  IN IF ends = {} THEN 0 ELSE CHOOSE i \in ends : \A h \in ends : h <= i

\* between every admitted packet and the end before it lie exactly
\* frame_skip eligible packets
ExactlyKBetween(log) ==
  LET e == EligibleOf(log) IN
    \A j \in 1..Len(e) :
      e[j] = "admitted" => (j - 1) - PrevEnd(e, j) = request.frame_skip

\* between every admitted packet and the end before it lie frame_skip
\* packets discarded undecoded, then only packets that decoded to nothing
SkipsThenEmpties(log) ==
  LET e == EligibleOf(log) IN
    \A j \in 1..Len(e) :
      e[j] = "admitted" =>
        /\ (j - 1) - PrevEnd(e, j) >= request.frame_skip
        /\ \A m \in (PrevEnd(e, j) + 1)..(j - 1) :
             e[m] = IF m <= PrevEnd(e, j) + request.frame_skip
                    THEN "skipped" ELSE "empty"

\* C6 (as claimed): a call that finds the packet source exhausted before it
\* admitted any frame reports Eof, from Decoder::next_window and from
\* TimelapseContext::next_frame, Unseeded or Seeded.
C6_ExhaustedIsEof ==
  /\ (dec_result.kind # "none" /\ dec_result.eof /\ dec_result.window = <<>>)
       => dec_result.kind = "Eof"
  /\ (tl_result.kind # "none" /\ tl_result.eof /\ tl_result.admitted = 0)
       => tl_result.kind = "Eof"

\* C7: a window Decoder::next_window returns holds between 1 and window_size
\* frames, and fewer than window_size only when that call found the packet
\* source exhausted.
C7_WindowLength ==
  dec_result.kind = "Ok" =>
    /\ Len(dec_result.window) >= 1
    /\ Len(dec_result.window) <= request.window_size
    /\ Len(dec_result.window) < request.window_size
         => (dec_result.eof /\ packet_pos = Len(packets))

C7_Witness ==
  /\ dec_result.kind = "Ok"
  /\ Len(dec_result.window) < request.window_size
  /\ Len(dec_log) > Len(dec_result.window)

\* C8 (as claimed): with frame_skip = k, exactly k eligible packets lie
\* between consecutively admitted frames and before the first, also when a
\* packet decodes to an empty frame.
C8_ExactlyKDiscarded == ExactlyKBetween(dec_log) /\ ExactlyKBetween(tl_log)

\* C8 (amended): with frame_skip = k, every admitted frame comes after
\* exactly k eligible packets discarded undecoded since the previous admitted
\* frame (or failed decode, or the start), across window boundaries; packets
\* that decode to an empty frame are dropped in addition to those k.
C8_KSkippedThenEmpties == SkipsThenEmpties(dec_log) /\ SkipsThenEmpties(tl_log)

C8_Witness ==
  /\ request.frame_skip > 0
  /\ \E log \in {dec_log, tl_log} :
       LET e == EligibleOf(log) IN
         \E j \in 2..Len(e) : e[j] = "admitted" /\ e[j - 1] = "empty"

\* C9: with key_frames_only, no frame of any window comes from a packet
\* without the KEY flag, and such packets are neither decoded nor counted as
\* skipped: the packets counted are key packets, k before each admitted one.
C9_KeyFramesOnly ==
  request.key_frames_only =>
    /\ \A i \in 1..Len(dec_result.window) : dec_result.window[i].key
    /\ tl_result.kind = "Ok" => Unwrap(tl_result.frame).key
    /\ \A log \in {dec_log, tl_log} :
         /\ \A i \in 1..Len(log) :
              (packets[i].video /\ ~packets[i].key) <=> log[i] = "nonkey"
         /\ SkipsThenEmpties(log)

C9_Witness ==
  /\ request.key_frames_only
  /\ request.frame_skip > 0
  /\ dec_result.kind = "Ok"
  /\ \E i \in 2..(Len(dec_log) - 1) :
       /\ dec_log[i - 1] = "skipped"
       /\ dec_log[i] = "nonkey"
       /\ dec_log[i + 1] = "admitted"

\* ---- the pipeline

\* frames admitted into windows so far
Admitted == Len(SelectSeq(dec_log, LAMBDA d : d = "admitted"))

\* C10: over a source that admits n frames, extraction and selection with
\* window size w end with exactly ceil(n / w) selected frames: one per
\* non-empty window, the short final one included; no selection faults.
C10_OnePerWindow ==
  /\ pc # "crashed"
  /\ pc = "done" =>
       Len(selected) = (Admitted + request.window_size - 1) \div request.window_size

C10_Witness ==
  /\ pc = "done"
  /\ Admitted > request.window_size
  /\ Admitted % request.window_size # 0
  /\ Len(selected) > 1

\* ---- the encoder

\* C11 (as claimed): finish writes every packet the encoder still holds
\* before the trailer and writes the trailer exactly once, for zero, one or
\* several held packets.
C11_FinishFlushesAll ==
  enc_pc = "done" =>
    /\ enc_queue = <<>>
    /\ enc_out # <<>>
    /\ enc_out[Len(enc_out)] = Trailer
    /\ \A i \in 1..(Len(enc_out) - 1) : enc_out[i] # Trailer

\* ---- mse

RECURSIVE SumSq(_, _, _)
\* the sum of the squared differences of two byte sequences, from pair i on
SumSq(a, b, i) ==
  IF i > Len(a) THEN 0
  ELSE (a[i] - b[i]) * (a[i] - b[i]) + SumSq(a, b, i + 1)

RECURSIVE WideTimes(_, _)
\* n * x, exactly
WideTimes(n, x) ==
  IF n = 0 THEN Wide(0, 0)
  ELSE LET most == WideTimes(n \div 256, x)
       IN WideAdd(WideScale(most, 256), (n % 256) * x)

\* C12 (as claimed): the MSE distance of two equal-length byte sequences is
\* the sum of the squared differences divided by the number of pairs, for
\* all byte values, differences of 182 and more included.
C12_MseIsMeanOfSquares ==
  calc.err # None =>
    /\ Unwrap(calc.err).num = WideTimes(calc.times, SumSq(calc.vec1, calc.vec2, 1))
    /\ Unwrap(calc.err).den = calc.times * Len(calc.vec1)

\* C13 (as claimed): mse(a ++ a, b ++ b) = mse(a, b) for all equal-length a
\* and b: the doubled buffers have twice the pairs, so the quotients are
\* equal exactly when the doubled sum is twice the sum.
C13_DoublingKeepsMse ==
  calc.err # None =>
    /\ Unwrap(calc.err2).den = 2 * Unwrap(calc.err).den
    /\ Unwrap(calc.err2).num = WideScale(Unwrap(calc.err).num, 2)

\* ---- more on the selectors

\* C14: the Noop selector returns the first frame of every non-empty window
\* (EmptyInput on an empty one) and keeps no reference: what a call returns
\* is decided by its window alone, whatever calls came before.
C14_NoopFirstFrame ==
  (Selector = "NoopFrameSelector" /\ pick_result.kind # "none") =>
    /\ pick_result = IF pick_window = <<>> THEN EmptyInput
                     ELSE Ok(1, pick_window[1])
    /\ last_frame = None
    /\ last_hash = None
    /\ dist_calls = 0
    /\ ref_writes = 0

C14_Witness ==
  /\ Selector = "NoopFrameSelector"
  /\ pick_result.kind = "Ok"
  /\ Len(pick_window) > 1
  /\ pick_window[Len(pick_window)].data # pick_window[1].data

\* C15: an unsupported comparison mode is rejected by get_frame_selector,
\* before any frame is processed, and by nothing later: for every mode either
\* construction panicked and no pick_best ever ran, or no pick_best fails in
\* get_hash_alg (its invalid-mode arm is not reached).
C15_RejectedAtConstruction ==
  /\ selector = "panic" => pick_result.kind = "none"
  /\ pick_result.fault # "get_hash_alg"
  /\ selector = "HashFrameSelector" => request.comparison_mode \in HashModes

C15_Witness ==
  /\ request.comparison_mode = "SSIM"
  /\ selector = "panic"

\* a frame whose buffer is empty or not width * height * 3 bytes long
Malformed(frame) == Len(frame.data) # PlaneLen

\* the candidates the latest call looked at: the first when Unseeded, all
\* when Seeded
Looked == IF PrevRef = None THEN {1} ELSE 1..Len(pick_window)

\* C17 (as claimed): the MSE and hash selectors return an error value, and
\* do not fault, when a candidate frame is malformed, and never fault on
\* frames of valid size.
C17_MalformedIsError ==
  (OwnSelector /\ pick_result.kind # "none" /\ pick_window # <<>>) =>
    IF \E i \in Looked : Malformed(pick_window[i])
    THEN pick_result.kind \notin {"Ok", "panic"}
    ELSE pick_result.kind # "panic"

\* the candidate tuples of a window, as the selector in use scores them
ScoredOf(window, ref) ==
  [i \in 1..Len(window) |->
     IF Selector = "MSEFrameSelector" THEN MSE_candidate(window, i, ref)
     ELSE Hash_candidate(window, i, ref, request.comparison_mode)]

RECURSIVE FoldLeft(_, _)
\* the minimum taken one candidate after the other, left to right
FoldLeft(items, n) ==
  IF n = 1 THEN items[1]
  ELSE min_op(FoldLeft(items, n - 1), items[n], Selector = "HashFrameSelector")

\* C18: Seeded, the frame returned and the reference stored are those of
\* the left-to-right minimum, however the parallel reduction grouped the
\* candidates (scoring a candidate reads only the frame and the reference, so
\* the order of scoring cannot show).
C18_GroupingIndependent ==
  SeededPick =>
    LET m == FoldLeft(ScoredOf(pick_window, Unwrap(PrevRef)), Len(pick_window))
    IN /\ pick_result.idx = m.idx
       /\ Returned = m.frame
       /\ Ref = Some(m.sum)

C18_Witness ==
  /\ SeededPick
  /\ Len(pick_window) > 2
  /\ \E j \in 1..Len(pick_window) :
       /\ j # pick_result.idx
       /\ NoFarther(pick_window[j], Returned, Unwrap(PrevRef))
  /\ \E k \in 1..Len(pick_window) :
       ~NoFarther(pick_window[k], Returned, Unwrap(PrevRef))

\* C20: a pick_best that fails with EmptyInput leaves the reference as the
\* call found it.
C20_EmptyInputKeepsReference ==
  pick_result.kind = "EmptyInput" =>
    /\ last_frame = prev_frame
    /\ last_hash = prev_hash
    /\ ref_writes = 0

C20_Witness ==
  /\ OwnSelector
  /\ pick_result.kind = "EmptyInput"
  /\ PrevRef # None
  /\ Ref = PrevRef

\* ---- more on the Decoder

\* what became of the packets the latest next_window consumed
CallLog == SubSeq(dec_log, dec_result.from + 1, Len(dec_log))

\* C16: a next_window call in which decoding or scaling of a packet fails
\* returns the error at once (the failing packet is the last one it
\* consumed) and no window, whatever it had accumulated; a call in which
\* nothing fails returns no error.
C16_ErrorEndsCall ==
  dec_result.kind # "none" =>
    /\ (\E i \in 1..Len(CallLog) : CallLog[i] = "error")
         <=> dec_result.kind = "Error"
    /\ dec_result.kind = "Error" =>
         /\ dec_result.window = <<>>
         /\ CallLog[Len(CallLog)] = "error"
         /\ \A i \in 1..(Len(CallLog) - 1) : CallLog[i] # "error"

C16_Witness ==
  /\ dec_result.kind = "Error"
  /\ \E i \in 1..Len(CallLog) : CallLog[i] = "admitted"

\* C19 (as claimed): for every comparison mode, the pixel format get_info
\* reports as decoded_pixel_format is the format of the frames next_window
\* returns.
C19_InfoFormatIsFrameFormat ==
  (info # None /\ dec_result.kind = "Ok") =>
    \A i \in 1..Len(dec_result.window) :
      dec_result.window[i].format = Unwrap(info).decoded_pixel_format

\* ---- the windows of successive calls

RECURSIVE Flatten(_, _)
\* the frame ids of the first n calls' windows, one after the other
Flatten(calls, n) ==
  IF n = 0 THEN <<>> ELSE Flatten(calls, n - 1) \o calls[n].ids

RECURSIVE AdmittedIds(_, _, _)
\* the ids of the frames admitted among the first n packets, in source
\* order, those of the set `out` left out
AdmittedIds(log, n, out) ==
  IF n = 0 THEN <<>>
  ELSE IF log[n] = "admitted" /\ n \notin out
  THEN Append(AdmittedIds(log, n - 1, out), n)
  ELSE AdmittedIds(log, n - 1, out)

\* packet i was consumed by a call that failed
InFailedCall(i) ==
  \E c \in 1..Len(dec_calls) :
    /\ dec_calls[c].kind = "Error"
    /\ dec_calls[c].from < i
    /\ i <= dec_calls[c].to

\* the packets consumed by calls that failed
FailedCalls == {i \in 1..Len(dec_log) : InFailedCall(i)}

\* C21 (as claimed): the windows next_window returns are disjoint,
\* consecutive runs of the admitted frames in source order: one after the
\* other they are the sequence of all admitted frames, none twice and none
\* dropped.
C21_WindowsPartitionAdmitted ==
  Flatten(dec_calls, Len(dec_calls))
    = AdmittedIds(dec_log, Len(dec_log), {})

\* C21 (amended): the windows returned are disjoint, consecutive runs, in
\* source order, of the frames admitted by the calls that did not fail; the
\* frames a call had accumulated when a decode or scale error ended it are
\* in no window.
C21_WindowsPartitionKept ==
  /\ Flatten(dec_calls, Len(dec_calls))
       = AdmittedIds(dec_log, Len(dec_log), FailedCalls)
  /\ \A c \in 1..Len(dec_calls) :
       dec_calls[c].kind # "Ok" => dec_calls[c].ids = <<>>

C21_Witness ==
  /\ \E c, d \in 1..Len(dec_calls) :
       /\ c < d
       /\ Len(dec_calls[c].ids) > 1
       /\ dec_calls[d].ids # <<>>

\* ---- more on the encoder

\* C22 (as claimed): finish terminates in every encoder state, also when
\* the codec holds no packet: once entered it comes to its end, done or
\* failed.
C22_FinishTerminates ==
  (enc_pc = "flush") ~> (enc_pc \in {"done", "failed"})

\* C24: the timestamps given to the codec are 0, 1, 2, ... in the order of
\* the encode_frame calls, and pts is the number of frames handed to the
\* codec: a call that fails in scaling hands nothing over and leaves pts, a
\* call that fails in encoding has handed its frame over and counts.
C24_PtsCountsHanded ==
  /\ pts = Len(enc_handed)
  /\ \A i \in 1..Len(enc_handed) : enc_handed[i] = i - 1

C24_Witness ==
  /\ Len(enc_handed) > 1
  /\ enc_last = "Error"
  /\ Len(enc_queue) + Len(enc_out) < Len(enc_handed)

\* ---- the legacy front end against the new one

\* what the latest TimelapseContext::next_frame gave its caller
LegacyOutcome == [kind |-> tl_result.kind, frame |-> tl_result.frame]

\* what the latest Decoder::next_window, followed by pick_best on its
\* window, gave its caller
NewOutcome ==
  IF dec_result.kind = "Ok"
  THEN [kind |-> pick_result.kind, frame |-> pick_result.frame]
  ELSE [kind |-> dec_result.kind, frame |-> None]

\* C23 (as claimed): on one packet stream and one request, each call of the
\* legacy TimelapseContext::next_frame has the outcome of the matching
\* Decoder::next_window followed by the Blockhash pick_best: the same frame,
\* the same error, or end-of-stream on both sides, also on a stream that
\* admits no frame.
C23_SameOutcomes == LegacyOutcome = NewOutcome

\* ---- repeated calls of Decoder::next_window

\* the latest call returned Eof and no frame, with the source exhausted
AtEof ==
  /\ dec_result.kind = "Eof"
  /\ dec_result.window = <<>>
  /\ packet_pos = Len(packets)

\* C25: on a finite packet stream with window_size >= 1, repeated calls of
\* Decoder::next_window come to return Eof; each call ends (it consumes
\* packets of the finite stream until it returns); and once a call has
\* returned Eof every later call returns Eof with no frame.
C25_EofIsReachedAndKept ==
  /\ <>AtEof
  /\ [](dec_result.kind = "Eof" => []AtEof)

\* a call after the first Eof: an earlier call returned a window, one
\* consumed the rest of the stream and returned Eof, and the latest began
\* at the end of the stream
C25_Witness ==
  /\ AtEof
  /\ request.window_size >= 1
  /\ dec_calls # <<>>
  /\ dec_calls[Len(dec_calls)].kind = "Eof"
  /\ \E c \in 1..Len(dec_calls) : dec_calls[c].kind = "Ok"
  /\ dec_result.from = Len(packets)

====
